---- MODULE Spec2Model ----
(***************************************************************************)
(* A model of austevic-i18n (src/bin.ts): the translation pipeline         *)
(* (loadI18nTexts, start, pipe), the tolerant JSON extractor parseJsonText *)
(* and the lookup functions of the generated index module (getLanguage,    *)
(* i18n, setLanguage).                                                     *)
(*                                                                         *)
(* Texts are sequences of tokens.  The tokens "{", "}", ":" and "," are    *)
(* the JSON punctuation characters, "x" is a character of prose that no    *)
(* JSON text may contain, and every other token is one complete quoted     *)
(* string (a key, a translated string, a literal).                         *)
(***************************************************************************)
EXTENDS Integers, Sequences, FiniteSets, TLC

----------------------------------------------------------------------------
(* Bounds *)

\* longest response text handed to parseJsonText in SpecParse
MaxLen == 6
\* most marker calls found in one scan of the source tree
MaxMarkers == 2
\* most pipeline runs in one behaviour
MaxRuns == 2

----------------------------------------------------------------------------
(* JSON values, JSON.parse and JSON.stringify *)

Punct == {"{", "}", ":", ","}
Prose == "x"
IsStr(t) == t \notin Punct /\ t # Prose

\* a JSON value: a string, or an object whose members m keep insertion order
StrVal(t) == [t |-> "str", s |-> t, m |-> <<>>]
ObjVal(members) == [t |-> "obj", s |-> "", m |-> members]
Null == [t |-> "null", s |-> "", m |-> <<>>]
Undefined == [t |-> "undefined", s |-> "", m |-> <<>>]

ObjKeys(o) == [n \in 1..Len(o.m) |-> o.m[n].k]
HasKey(o, key) == \E n \in 1..Len(o.m) : o.m[n].k = key
\* o[key]
Get(o, key) ==
    IF HasKey(o, key)
    THEN (o.m[CHOOSE n \in 1..Len(o.m) : o.m[n].k = key]).v
    ELSE Undefined
\* o[key] = val: an existing property keeps its place, a new one goes last
ObjSet(o, key, val) ==
    IF HasKey(o, key)
    THEN ObjVal([n \in 1..Len(o.m) |->
                    IF o.m[n].k = key THEN [k |-> key, v |-> val] ELSE o.m[n]])
    ELSE ObjVal(Append(o.m, [k |-> key, v |-> val]))

Thrown == [ok |-> FALSE, v |-> Null, n |-> 0]

RECURSIVE ParseValue(_, _), ParseMembers(_, _, _)
\* the JSON value that starts at position p of text s, and where it ends
ParseValue(s, p) ==
    IF p > Len(s) THEN Thrown
    ELSE IF IsStr(s[p]) THEN [ok |-> TRUE, v |-> StrVal(s[p]), n |-> p + 1]
    ELSE IF s[p] = "{"
         THEN IF p + 1 <= Len(s) /\ s[p + 1] = "}"
              THEN [ok |-> TRUE, v |-> ObjVal(<<>>), n |-> p + 2]
              ELSE ParseMembers(s, p + 1, ObjVal(<<>>))
         ELSE Thrown
\* the members of an object from position p on, acc holding those before p
ParseMembers(s, p, acc) ==
    IF p + 1 <= Len(s) /\ IsStr(s[p]) /\ s[p + 1] = ":"
    THEN LET r == ParseValue(s, p + 2)
         IN  IF ~r.ok THEN Thrown
             ELSE IF r.n <= Len(s) /\ s[r.n] = ","
                  THEN ParseMembers(s, r.n + 1, ObjSet(acc, s[p], r.v))
                  ELSE IF r.n <= Len(s) /\ s[r.n] = "}"
                       THEN [ok |-> TRUE, v |-> ObjSet(acc, s[p], r.v), n |-> r.n + 1]
                       ELSE Thrown
    ELSE Thrown

\* JSON.parse: ok = FALSE stands for the SyntaxError it throws
JSONparse(s) ==
    LET r == ParseValue(s, 1)
    IN  IF r.ok /\ r.n = Len(s) + 1 THEN [ok |-> TRUE, v |-> r.v]
        ELSE [ok |-> FALSE, v |-> Null]

RECURSIVE JSONstringify(_), StringifyMembers(_, _)
JSONstringify(val) ==
    IF val.t = "str" THEN <<val.s>>
    ELSE IF val.t = "obj" THEN <<"{">> \o StringifyMembers(val.m, 1) \o <<"}">>
    ELSE <<"null">>
StringifyMembers(members, n) ==
    IF n > Len(members) THEN <<>>
    ELSE <<members[n].k, ":">> \o JSONstringify(members[n].v)
         \o (IF n < Len(members) THEN <<",">> ELSE <<>>)
         \o StringifyMembers(members, n + 1)

----------------------------------------------------------------------------
(* parseJsonText *)

\* ScanBraces without the test openBraceIndex === -1: the last "{" wins
RECURSIVE ScanBraces_LastOpen(_, _, _, _)
ScanBraces_LastOpen(jsonString, p, openBraceIndex, closeBraceIndex) ==
    IF p > Len(jsonString)
    THEN [openBraceIndex |-> openBraceIndex, closeBraceIndex |-> closeBraceIndex]
    ELSE IF jsonString[p] = "{"
         THEN ScanBraces_LastOpen(jsonString, p + 1, p, closeBraceIndex)
         ELSE IF jsonString[p] = "}"
              THEN ScanBraces_LastOpen(jsonString, p + 1, openBraceIndex, p)
              ELSE ScanBraces_LastOpen(jsonString, p + 1, openBraceIndex, closeBraceIndex)

\* the for loop of parseJsonText from position p on; positions are 1-based
\* and 0 is the code's -1 ("not seen")
RECURSIVE ScanBraces(_, _, _, _)
ScanBraces(jsonString, p, openBraceIndex, closeBraceIndex) ==
    IF p > Len(jsonString)
    THEN [openBraceIndex |-> openBraceIndex, closeBraceIndex |-> closeBraceIndex]
    ELSE IF jsonString[p] = "{" /\ openBraceIndex = 0
         THEN ScanBraces(jsonString, p + 1, p, closeBraceIndex)
         ELSE IF jsonString[p] = "}"
              THEN ScanBraces(jsonString, p + 1, openBraceIndex, p)
              ELSE ScanBraces(jsonString, p + 1, openBraceIndex, closeBraceIndex)

\* String.prototype.slice(from, to + 1) with 0 <= from, to: empty when to < from
Slice(s, from, to) == SubSeq(s, from, to)

\* threw = TRUE would be an exception leaving parseJsonText; the try/catch
\* around JSON.parse turns its only throw into null
parseJsonText(jsonString) ==
    LET b == ScanBraces(jsonString, 1, 0, 0)
    IN  IF b.openBraceIndex # 0 /\ b.closeBraceIndex # 0
        THEN LET extractedJson ==
                     JSONparse(Slice(jsonString, b.openBraceIndex, b.closeBraceIndex))
             IN  IF extractedJson.ok
                 THEN [threw |-> FALSE, v |-> extractedJson.v]
                 ELSE [threw |-> FALSE, v |-> Null]
        ELSE [threw |-> FALSE, v |-> Null]

----------------------------------------------------------------------------
(* The pipeline: loadI18nTexts, start, pipe *)

VARIABLES
    \* the store, table i18n (k TEXT PRIMARY KEY, v TEXT): key -> stored text
    db,
    \* the generated files on disk: i18n-source.ts (<<>> = absent) and index.ts
    outfile, indexfile,
    \* the marker-call keys findI18nTextInDirectory pushed in the latest scan
    tree,
    \* the run in progress: position, texts of pipe/start, loop index, out
    pc, texts, i, out,
    \* msg of start: the content of the response being handled (<<>> outside
    \* the iteration that declares it)
    msg,
    \* history: number of runs started
    run,
    \* history: service requests sent per key, in total and in this run, and
    \* the requests that ended without a row (no content, unparsable text,
    \* transport error, termination, failed insert)
    calls, runCalls, failed,
    \* history: keys whose latest request ended in a soft failure, and the
    \* keys that soft-failed in this run
    soft, softRun,
    \* history: the record each completed insert wrote, how many inserts
    \* completed per key, the keys this run inserted
    inserted, inserts, insertedRun,
    \* history: keys whose insert failed in this run; whether a store or
    \* transport failure happened in this run
    insertFailed, storeFailed,
    \* history: writes of each output module by this run
    nData, nIndex,
    \* history: the run before this one
    prev

pvars == <<db, outfile, indexfile, tree, pc, texts, i, out, msg, run, calls, runCalls,
           failed, soft, softRun, inserted, inserts, insertedRun, insertFailed,
           storeFailed, nData, nIndex, prev>>

fallback == "hello"
\* the literals the source tree may hold in marker calls
Literals == {"a", "b"}
AllKeys == Literals \cup {fallback}

RECURSIVE SeqsUpTo(_, _)
SeqsUpTo(S, n) ==
    IF n = 0 THEN {<<>>}
    ELSE LET shorter == SeqsUpTo(S, n - 1)
         IN  shorter \cup {Append(q, e) : q \in {r \in shorter : Len(r) = n - 1}, e \in S}

\* what a scan can find: up to MaxMarkers marker calls, repeats included
Trees == SeqsUpTo(Literals, MaxMarkers)

\* the texts the translation service may answer with; <<>> is "no content"
Responses ==
    { <<>>,
      <<"x", "{", "en", "}">>,
      <<"x", "{", "en", ":", "Hi", ",", "zh", ":", "Ni", ",", "en", ":", "Ho", "}", "x">> }

\* rows an earlier run of the program can have left in the store
StartRows == {JSONstringify(ObjVal(<<[k |-> "en", v |-> StrVal("Yo")]>>))}

\* Array.from(new Set(texts)): first occurrences, in order
RECURSIVE Dedup(_)
Dedup(s) ==
    IF s = <<>> THEN <<>>
    ELSE LET front == Dedup(SubSeq(s, 1, Len(s) - 1))
             last == s[Len(s)]
         IN  IF \E n \in 1..Len(front) : front[n] = last THEN front
             ELSE Append(front, last)

loadI18nTexts(found) == Dedup(found)

\* insertKv into a table made anew: the rows before it are lost
insertKv_Truncate(d, k, v) == [x \in {k} |-> v]

\* insert into i18n (k, v): a second row for a key violates the primary key
insertKv(d, k, v) ==
    IF k \in DOMAIN d THEN d
    ELSE [x \in DOMAIN d \cup {k} |-> IF x = k THEN v ELSE d[x]]

Bump(f, k) == [f EXCEPT ![k] = @ + 1]
Zero == [k \in AllKeys |-> 0]
NoPrev == [done |-> FALSE, tree |-> <<>>, outfile |-> <<>>, allCached |-> FALSE]

\* before the first run: no generated file, nothing requested yet
PipeRest ==
    /\ outfile = <<>>
    /\ indexfile = "absent"
    /\ tree = <<>>
    /\ pc = "idle"
    /\ texts = <<>>
    /\ i = 1
    /\ out = ObjVal(<<>>)
    /\ msg = <<>>
    /\ run = 0
    /\ calls = Zero
    /\ runCalls = Zero
    /\ failed = Zero
    /\ soft = {}
    /\ softRun = {}
    /\ inserted = <<>>
    /\ inserts = Zero
    /\ insertedRun = {}
    /\ insertFailed = {}
    /\ storeFailed = FALSE
    /\ nData = 0
    /\ nIndex = 0
    /\ prev = NoPrev

\* any starting cache
PipeInit ==
    /\ db \in UNION {[S -> StartRows] : S \in SUBSET AllKeys}
    /\ PipeRest

\* pipe, up to the call of start, and start up to its loop: scan the tree,
\* fall back to "hello", open the store
StartRun(found) ==
    /\ pc \in {"idle", "done", "crashed"}
    /\ run < MaxRuns
    /\ tree' = found
    /\ texts' = (IF Len(loadI18nTexts(found)) = 0 THEN <<fallback>>
                 ELSE loadI18nTexts(found))
    /\ i' = 1
    /\ out' = ObjVal(<<>>)
    /\ pc' = "loop"
    /\ run' = run + 1
    /\ runCalls' = Zero
    /\ softRun' = {}
    /\ insertedRun' = {}
    /\ insertFailed' = {}
    /\ storeFailed' = FALSE
    /\ nData' = 0
    /\ nIndex' = 0
    /\ prev' = (IF pc = "done"
                THEN [done |-> TRUE, tree |-> tree, outfile |-> outfile,
                      allCached |-> \A n \in 1..Len(texts) : texts[n] \in DOMAIN db]
                ELSE NoPrev)
    /\ UNCHANGED <<db, outfile, indexfile, msg, calls, failed, soft, inserted, inserts>>

\* LookupHit without the assignment to out[text]
LookupHit_Forget ==
    /\ pc = "loop"
    /\ i <= Len(texts)
    /\ texts[i] \in DOMAIN db
    /\ i' = i + 1
    /\ UNCHANGED <<db, outfile, indexfile, tree, msg, pc, texts, out, run, calls,
                   runCalls, failed, soft, softRun, inserted, inserts, insertedRun,
                   insertFailed, storeFailed, nData, nIndex, prev>>

\* LookupHit that also writes the data module, once per literal
LookupHit_Writes ==
    /\ pc = "loop"
    /\ i <= Len(texts)
    /\ texts[i] \in DOMAIN db
    /\ out' = ObjSet(out, texts[i], JSONparse(db[texts[i]]).v)
    /\ i' = i + 1
    /\ outfile' = <<"export">> \o JSONstringify(out')
    /\ nData' = nData + 1
    /\ UNCHANGED <<db, indexfile, tree, msg, pc, texts, run, calls, runCalls, failed,
                   soft, softRun, inserted, inserts, insertedRun, insertFailed,
                   storeFailed, nIndex, prev>>

\* the select of start finds a row: out[text] = JSON.parse(old.v)
LookupHit ==
    /\ pc = "loop"
    /\ i <= Len(texts)
    /\ texts[i] \in DOMAIN db
    /\ out' = ObjSet(out, texts[i], JSONparse(db[texts[i]]).v)
    /\ i' = i + 1
    /\ UNCHANGED <<db, outfile, indexfile, tree, msg, pc, texts, run, calls, runCalls,
                   failed, soft, softRun, inserted, inserts, insertedRun,
                   insertFailed, storeFailed, nData, nIndex, prev>>

\* LookupMiss without the test of old: every literal is requested
LookupMiss_Always ==
    /\ pc = "loop"
    /\ i <= Len(texts)
    /\ pc' = "await"
    /\ calls' = Bump(calls, texts[i])
    /\ runCalls' = Bump(runCalls, texts[i])
    /\ soft' = soft \ {texts[i]}
    /\ UNCHANGED <<db, outfile, indexfile, tree, msg, texts, i, out, run, failed,
                   softRun, inserted, inserts, insertedRun, insertFailed,
                   storeFailed, nData, nIndex, prev>>

\* the select finds no row: the request for texts[i] is sent
LookupMiss ==
    /\ pc = "loop"
    /\ i <= Len(texts)
    /\ texts[i] \notin DOMAIN db
    /\ pc' = "await"
    /\ calls' = Bump(calls, texts[i])
    /\ runCalls' = Bump(runCalls, texts[i])
    /\ soft' = soft \ {texts[i]}
    /\ UNCHANGED <<db, outfile, indexfile, tree, msg, texts, i, out, run, failed,
                   softRun, inserted, inserts, insertedRun, insertFailed,
                   storeFailed, nData, nIndex, prev>>

\* the select itself fails: nothing catches it, the run ends
LookupFail ==
    /\ pc = "loop"
    /\ i <= Len(texts)
    /\ pc' = "crashed"
    /\ storeFailed' = TRUE
    /\ UNCHANGED <<db, outfile, indexfile, tree, msg, texts, i, out, run, calls,
                   runCalls, failed, soft, softRun, inserted, inserts, insertedRun,
                   insertFailed, nData, nIndex, prev>>

\* the request fails in transport: the await throws outside the try
TransportError ==
    /\ pc = "await"
    /\ pc' = "crashed"
    /\ storeFailed' = TRUE
    /\ failed' = Bump(failed, texts[i])
    /\ UNCHANGED <<db, outfile, indexfile, tree, msg, texts, i, out, run, calls,
                   runCalls, soft, softRun, inserted, inserts, insertedRun,
                   insertFailed, nData, nIndex, prev>>

\* no content (continue) or no parsable object (throw, caught): next literal
SoftFailure(text) ==
    /\ i' = i + 1
    /\ pc' = "loop"
    /\ failed' = Bump(failed, text)
    /\ soft' = soft \cup {text}
    /\ softRun' = softRun \cup {text}
    /\ UNCHANGED <<db, out, inserted, inserts, insertedRun, insertFailed, storeFailed>>

\* out[text] = obj, then insertKv(db, text, JSON.stringify(out[text]))
Stored(text, insertOk) ==
    /\ out' = ObjSet(out, text, parseJsonText(msg).v)
    /\ i' = i + 1
    /\ pc' = "loop"
    /\ IF insertOk /\ text \notin DOMAIN db
       THEN /\ db' = insertKv(db, text, JSONstringify(Get(out', text)))
            /\ inserted' = [k \in DOMAIN inserted \cup {text} |->
                               IF k = text THEN Get(out', text) ELSE inserted[k]]
            /\ inserts' = Bump(inserts, text)
            /\ insertedRun' = insertedRun \cup {text}
            /\ UNCHANGED <<failed, insertFailed, storeFailed>>
       ELSE /\ failed' = Bump(failed, text)
            /\ insertFailed' = insertFailed \cup {text}
            /\ storeFailed' = TRUE
            /\ UNCHANGED <<db, inserted, inserts, insertedRun>>
    /\ UNCHANGED <<soft, softRun>>

\* the response arrives: msg = completion.choices[0]?.message.content
Receive(content) ==
    /\ pc = "await"
    /\ msg' = content
    /\ pc' = "handle"
    /\ UNCHANGED <<db, outfile, indexfile, tree, texts, i, out, run, calls,
                   runCalls, failed, soft, softRun, inserted, inserts, insertedRun,
                   insertFailed, storeFailed, nData, nIndex, prev>>

\* Handle without the catch: an unparsable response ends the run
Handle_Abort(insertOk) ==
    /\ pc = "handle"
    /\ IF msg = <<>> THEN SoftFailure(texts[i])
       ELSE IF parseJsonText(msg).v = Null
            THEN /\ pc' = "crashed"
                 /\ failed' = Bump(failed, texts[i])
                 /\ UNCHANGED <<db, i, out, soft, softRun, inserted, inserts,
                                insertedRun, insertFailed, storeFailed>>
            ELSE Stored(texts[i], insertOk)
    /\ msg' = <<>>
    /\ UNCHANGED <<outfile, indexfile, tree, texts, run, calls, runCalls,
                   nData, nIndex, prev>>

\* the try block of start on msg; insertOk tells whether the store accepts
\* the insert.  The catch takes a failed insert too, after out[text] is set
Handle(insertOk) ==
    /\ pc = "handle"
    /\ IF msg = <<>> THEN SoftFailure(texts[i])
       ELSE IF parseJsonText(msg).v = Null THEN SoftFailure(texts[i])
            ELSE Stored(texts[i], insertOk)
    /\ msg' = <<>>
    /\ UNCHANGED <<outfile, indexfile, tree, texts, run, calls, runCalls,
                   nData, nIndex, prev>>

\* start returns: pipe writes the data module
WriteOutfile ==
    /\ pc = "loop"
    /\ i > Len(texts)
    /\ outfile' = <<"export">> \o JSONstringify(out)
    /\ nData' = nData + 1
    /\ pc' = "writeIndex"
    /\ UNCHANGED <<db, indexfile, tree, texts, i, out, msg, run, calls, runCalls,
                   failed, soft, softRun, inserted, inserts, insertedRun,
                   insertFailed, storeFailed, nIndex, prev>>

\* pipe writes the index module (and starts the formatter)
WriteIndex ==
    /\ pc = "writeIndex"
    /\ indexfile' = "i18nIndex"
    /\ nIndex' = nIndex + 1
    /\ pc' = "done"
    /\ UNCHANGED <<db, outfile, tree, texts, i, out, msg, run, calls, runCalls,
                   failed, soft, softRun, inserted, inserts, insertedRun,
                   insertFailed, storeFailed, nData, prev>>

\* the process is terminated from outside in the middle of a run
Terminate ==
    /\ pc \in {"loop", "await", "writeIndex"}
    /\ pc' = "crashed"
    /\ failed' = (IF pc = "await" THEN Bump(failed, texts[i]) ELSE failed)
    /\ UNCHANGED <<db, outfile, indexfile, tree, texts, i, out, msg, run, calls,
                   runCalls, soft, softRun, inserted, inserts, insertedRun,
                   insertFailed, storeFailed, nData, nIndex, prev>>

----------------------------------------------------------------------------
(* parseJsonText applied to a response text *)

VARIABLES
    \* the text handed to parseJsonText, and what the call gave ("none": not
    \* called yet)
    jsonString, parsed

jvars == <<jsonString, parsed>>

NotCalled == [threw |-> FALSE, v |-> [t |-> "none", s |-> "", m |-> <<>>]]
ParseAlphabet == {"{", "}", ":", ",", "en", "x"}

ParseRest == jsonString = <<>> /\ parsed = NotCalled

CallParseJsonText ==
    /\ parsed = NotCalled
    /\ parsed' = parseJsonText(jsonString)
    /\ UNCHANGED jsonString

----------------------------------------------------------------------------
(* The generated index module: getLanguage, i18n, setLanguage *)

VARIABLES
    \* configuration: the codes of --lang (langs of the index module)
    inputLangs,
    \* the data module the index module imports
    i18nSource,
    \* the environment: is there a window, localStorage "lang" ("" = unset),
    \* navigator.language as characters
    hasWindow, storedLang, navigatorLanguage,
    \* module state of the index module
    lastLang,
    \* the latest call of i18n: its text ("" = none yet), the language
    \* getLanguage gave it, its result
    calledText, calledLang, result,
    \* whether setLanguage has asked for a reload that is still to happen
    reloading

rvars == <<inputLangs, i18nSource, hasWindow, storedLang, navigatorLanguage,
           lastLang, calledText, calledLang, result, reloading>>

availableLanguages ==
    {"en", "zh", "ja", "es", "fr", "hi", "de", "ru", "pt", "it", "ko", "tr", "vi",
     "th", "id", "ar", "pl", "nl", "sv", "uk"}
\* the record a service that follows aiPrompt answers with: the six languages
\* the prompt names
promptRecord ==
    ObjVal(<<[k |-> "en", v |-> StrVal("Hi")], [k |-> "es", v |-> StrVal("Hola")],
             [k |-> "zh", v |-> StrVal("Ni")], [k |-> "fr", v |-> StrVal("Salut")],
             [k |-> "hi", v |-> StrVal("Namaste")], [k |-> "ja", v |-> StrVal("Konnichiwa")]>>)

\* the --lang lists the runs are configured with
ConfiguredLists == (SUBSET {"en", "zh", "de"}) \ {{}}
\* the values of navigator.language and of localStorage "lang"
NavigatorLanguages ==
    {<<"e", "n", "-", "U", "S">>, <<"Z", "H", "-", "C", "N">>, <<"d", "e">>, <<"f", "i">>}
StoredLangs == {"", "zh", "de", "jp"}

toLowerCase(c) == CASE c = "Z" -> "z" [] c = "H" -> "h" [] c = "U" -> "u"
                    [] c = "S" -> "s" [] c = "C" -> "c" [] c = "N" -> "n"
                    [] c = "D" -> "d" [] c = "E" -> "e" [] OTHER -> c
\* the string two lower-case characters spell
Spell(q) == CASE q = <<"e", "n">> -> "en" [] q = <<"z", "h">> -> "zh"
              [] q = <<"d", "e">> -> "de" [] q = <<"f", "i">> -> "fi"
              [] OTHER -> "??"
\* navigator.language.slice(0, 2).toLowerCase()
Prefix2(q) == Spell([n \in 1..(IF Len(q) < 2 THEN Len(q) ELSE 2) |-> toLowerCase(q[n])])

\* getLanguage: the language it returns and the lastLang it leaves
getLanguage ==
    IF ~hasWindow THEN [lang |-> "en", lastLang |-> lastLang]
    ELSE IF lastLang # "" THEN [lang |-> lastLang, lastLang |-> lastLang]
    ELSE LET lng == IF storedLang # "" THEN storedLang ELSE Prefix2(navigatorLanguage)
             l == IF lng \in inputLangs THEN lng ELSE "en"
         IN  [lang |-> l, lastLang |-> l]

\* the records of a data module (the service following aiPrompt), and the
\* data modules
Records == {promptRecord}
DataModules == {ObjVal(<<>>)} \cup {ObjVal(<<[k |-> "a", v |-> rec]>>) : rec \in Records}

RuntimeRest ==
    /\ inputLangs = {"en"}
    /\ i18nSource = ObjVal(<<>>)
    /\ hasWindow = FALSE
    /\ storedLang = ""
    /\ navigatorLanguage = <<"e", "n">>
    /\ lastLang = ""
    /\ calledText = ""
    /\ calledLang = ""
    /\ result = Undefined
    /\ reloading = FALSE

RuntimeInit ==
    /\ inputLangs \in ConfiguredLists
    /\ inputLangs \subseteq availableLanguages
    /\ i18nSource \in DataModules
    /\ hasWindow \in BOOLEAN
    /\ storedLang \in StoredLangs
    /\ navigatorLanguage \in NavigatorLanguages
    /\ lastLang = ""
    /\ calledText = ""
    /\ calledLang = ""
    /\ result = Undefined
    /\ reloading = FALSE

\* i18n`text`
I18n(text) ==
    /\ calledText' = text
    /\ IF ~HasKey(i18nSource, text)
       THEN /\ result' = StrVal(text)
            /\ calledLang' = ""
            /\ UNCHANGED lastLang
       ELSE /\ result' = Get(Get(i18nSource, text), getLanguage.lang)
            /\ calledLang' = getLanguage.lang
            /\ lastLang' = getLanguage.lastLang
    /\ UNCHANGED <<inputLangs, i18nSource, hasWindow, storedLang, navigatorLanguage,
                   reloading>>

\* setLanguage(lng), up to its call of location.reload()
SetLanguage(lng) ==
    /\ hasWindow
    /\ ~reloading
    /\ lastLang' = lng
    /\ storedLang' = lng
    /\ reloading' = TRUE
    /\ UNCHANGED <<inputLangs, i18nSource, hasWindow, navigatorLanguage, calledText,
                   calledLang, result>>

\* the page loads again: the index module starts afresh
Reload ==
    /\ reloading
    /\ reloading' = FALSE
    /\ lastLang' = ""
    /\ calledText' = ""
    /\ calledLang' = ""
    /\ result' = Undefined
    /\ UNCHANGED <<inputLangs, i18nSource, hasWindow, storedLang, navigatorLanguage>>

----------------------------------------------------------------------------
(* Specifications *)

vars == <<pvars, jvars, rvars>>

Init == PipeInit /\ ParseRest /\ RuntimeRest

Next ==
    \/ (\E found \in Trees : StartRun(found)) /\ UNCHANGED <<jvars, rvars>>
    \/ LookupHit /\ UNCHANGED <<jvars, rvars>>
    \/ LookupMiss /\ UNCHANGED <<jvars, rvars>>
    \/ LookupFail /\ UNCHANGED <<jvars, rvars>>
    \/ TransportError /\ UNCHANGED <<jvars, rvars>>
    \/ (\E content \in Responses : Receive(content)) /\ UNCHANGED <<jvars, rvars>>
    \/ (\E insertOk \in BOOLEAN : Handle(insertOk)) /\ UNCHANGED <<jvars, rvars>>
    \/ WriteOutfile /\ UNCHANGED <<jvars, rvars>>
    \/ WriteIndex /\ UNCHANGED <<jvars, rvars>>
    \/ Terminate /\ UNCHANGED <<jvars, rvars>>

\* the pipeline, run up to MaxRuns times over any trees, caches and answers
Spec == Init /\ [][Next]_vars

InitParse ==
    /\ db = <<>>
    /\ PipeRest
    /\ RuntimeRest
    /\ jsonString \in SeqsUpTo(ParseAlphabet, MaxLen)
    /\ parsed = NotCalled

NextParse == CallParseJsonText /\ UNCHANGED <<pvars, rvars>>

\* parseJsonText on every text of up to MaxLen tokens
SpecParse == InitParse /\ [][NextParse]_vars

InitRuntime ==
    /\ db = <<>>
    /\ PipeRest
    /\ ParseRest
    /\ RuntimeInit

NextRuntime ==
    \/ (\E text \in {"a", "b"} : I18n(text)) /\ UNCHANGED <<pvars, jvars>>
    \/ (\E lng \in {"zh", "en", "jp", "es"} : SetLanguage(lng)) /\ UNCHANGED <<pvars, jvars>>
    \/ Reload /\ UNCHANGED <<pvars, jvars>>

\* the generated index module in a page, over any configuration and locale
SpecRuntime == InitRuntime /\ [][NextRuntime]_vars

----------------------------------------------------------------------------
(* Claims *)

\* the object literal a written data module holds
DataOf(file) == JSONparse(Tail(file)).v
Unprocessed == pc \in {"loop", "await", "handle", "crashed"} /\ i <= Len(texts)
IsSoft(content) == content = <<>> \/ parseJsonText(content).v = Null

\* C1 as stated: over any runs and any answers of the service, each literal is
\* sent to the service at most once in total.
C1_AtMostOnceInTotal == \A k \in AllKeys : calls[k] <= 1

\* C1 as amended: a literal is sent at most once per run, and in total at most
\* once more than the number of its requests that ended without a cache row
\* (no content, unparsable text, transport error, termination, failed insert):
\* only a request that left no row is ever repeated.
C1_AtMostOnceUnlessFailed ==
    \A k \in AllKeys : runCalls[k] <= 1 /\ calls[k] <= failed[k] + 1

\* a literal whose first request failed softly, requested again and stored
C1_Witness == \E k \in AllKeys : calls[k] = 2 /\ failed[k] = 1 /\ k \in DOMAIN inserted

\* C2 as stated: a second run over the unchanged tree sends no request and
\* writes the data module the first run wrote.
C2_Idempotent ==
    (prev.done /\ prev.tree = tree /\ pc = "done")
        => (runCalls = Zero /\ outfile = prev.outfile)

\* C2 as amended: when every literal of the scan had a cache row at the end
\* of the first run, a second run over the unchanged tree sends no request
\* and the data module it writes is identical to the first run's.
C2_IdempotentWhenAllCached ==
    (prev.done /\ prev.tree = tree /\ prev.allCached /\ pc # "idle")
        => /\ runCalls = Zero
           /\ nData = 1 => outfile = prev.outfile

\* a completed second run over two literals, both translated by the first run
C2_Witness ==
    /\ prev.done /\ prev.tree = tree /\ prev.allCached /\ pc = "done"
    /\ Len(texts) = 2
    /\ \A n \in 1..Len(texts) : texts[n] \in DOMAIN inserted
    /\ outfile = prev.outfile

\* C3: a request for a literal is sent only in a state where the literal has
\* no cache row; once a row exists no request for its key is sent again.
C3_CallOnlyOnMiss ==
    [][\A k \in AllKeys : calls'[k] # calls[k] => k \notin DOMAIN db]_vars

\* a later run serves from the cache a literal an earlier run had requested
C3_Witness ==
    \E k \in DOMAIN inserted :
        k \notin insertedRun /\ HasKey(out, k) /\ calls[k] = 1 /\ runCalls[k] = 0

C5_SoftFailure ==
    /\ [][(pc = "handle" /\ IsSoft(msg))
             => (pc' = "loop" /\ i' = i + 1 /\ texts' = texts /\ db' = db /\ out' = out)]_vars
    /\ [](\A k \in soft : k \notin DOMAIN db)
    /\ [](\A k \in softRun : ~HasKey(out, k))
    /\ [](pc \in {"writeIndex", "done"}
             => \A k \in softRun : ~HasKey(DataOf(outfile), k))
    /\ [][(pc = "loop" /\ i <= Len(texts) /\ texts[i] \in soft /\ pc' # "crashed")
             => (pc' = "await" /\ calls'[texts[i]] = calls[texts[i]] + 1)]_vars

\* the run after a completed run in which a literal failed softly requests
\* that literal again
C5_Witness ==
    /\ prev.done /\ prev.tree = tree /\ Len(texts) = 2
    /\ pc = "await"
    /\ calls[texts[i]] = 2
    /\ ~HasKey(DataOf(prev.outfile), texts[i])
    /\ Len(DataOf(prev.outfile).m) = 1

\* C6 as stated: a failure of the store (lookup or insert) or of the transport
\* ends the run: no further literal, no output module; a literal whose insert
\* failed is in no data module.
C6_StoreFailureEndsRun ==
    storeFailed => /\ pc = "crashed"
                   /\ nData = 0 /\ nIndex = 0
                   /\ \A k \in insertFailed : ~HasKey(out, k)

\* C7 as stated: a completed run over a tree without marker calls writes a
\* data module with exactly one entry, that of "hello".
C7_FallbackEntry ==
    (pc = "done" /\ loadI18nTexts(tree) = <<>>)
        => ObjKeys(DataOf(outfile)) = <<fallback>>

\* C8: while a literal of the scan is still unprocessed, also after the run
\* was terminated there, the run has written neither output module, and the
\* rows it inserted are in the store; no run writes a module twice.
C8_OutputOnlyAtEnd ==
    /\ Unprocessed => (nData = 0 /\ nIndex = 0)
    /\ nData <= 1 /\ nIndex <= 1 /\ nIndex <= nData
    /\ \A k \in insertedRun : k \in DOMAIN db /\ db[k] = JSONstringify(inserted[k])

\* a run terminated with a literal unprocessed after it had inserted a row
C8_Witness ==
    pc = "crashed" /\ i <= Len(texts) /\ i > 1 /\ insertedRun # {} /\ nData = 0

\* C9 as stated: for a literal with an entry in the data module and a
\* configured language code that getLanguage detects, i18n returns the
\* translated string of the literal for that code.
C9_LookupDefined ==
    (calledText # "" /\ HasKey(i18nSource, calledText) /\ calledLang \in inputLangs)
        => /\ result.t = "str"
           /\ result = Get(Get(i18nSource, calledText), calledLang)

\* the first "{" and the last "}" of a text, 0 when there is none
FirstOpen(s) ==
    IF \E p \in 1..Len(s) : s[p] = "{"
    THEN CHOOSE p \in 1..Len(s) : s[p] = "{" /\ \A q \in 1..(p - 1) : s[q] # "{"
    ELSE 0
LastClose(s) ==
    IF \E p \in 1..Len(s) : s[p] = "}"
    THEN CHOOSE p \in 1..Len(s) : s[p] = "}" /\ \A q \in (p + 1)..Len(s) : s[q] # "}"
    ELSE 0

\* C10: parseJsonText never throws; it gives null when the text has no "{",
\* no "}", its last "}" before its first "{", or when the text from the first
\* "{" to the last "}" does not parse; otherwise it gives the parse of that
\* text.
C10_TolerantExtraction ==
    parsed # NotCalled =>
        LET f == FirstOpen(jsonString)
            l == LastClose(jsonString)
        IN  /\ ~parsed.threw
            /\ IF f = 0 \/ l = 0 \/ l < f THEN parsed.v = Null
               ELSE IF JSONparse(SubSeq(jsonString, f, l)).ok
                    THEN parsed.v = JSONparse(SubSeq(jsonString, f, l)).v /\ parsed.v # Null
                    ELSE parsed.v = Null

\* an object recovered from between prose
C10_Witness ==
    /\ parsed.v.t = "obj"
    /\ Len(parsed.v.m) = 1
    /\ jsonString[1] = "x"

====
